---------------------------- MODULE Spec2Model ----------------------------
(***************************************************************************)
(* Entitlement auto-healing: HealingActionInvoker / HealingUpdateAction    *)
(* of src/subscription_manager/healinglib.py.                              *)
(*                                                                         *)
(* One healing cycle is one call of HealingActionInvoker.update() by a     *)
(* scheduler thread.  Each thread walks through perform() one collaborator *)
(* call at a time; the outcome of every collaborator call (its result or   *)
(* the fact that it raises) is chosen nondeterministically at the call.    *)
(* Time is counted in units of 12 hours.                                   *)
(***************************************************************************)
EXTENDS Integers, Sequences, FiniteSets, TLC

\* ---------------------------------------------------------------- bounds
MaxNow == 0        \* datetime.now() yields an instant in 0..MaxNow
MaxGrants == 1     \* uep.bind returns a list of at most MaxGrants grants
MaxCycles == 2     \* cycles one scheduler thread runs in a row, in SpecSeq

\* ------------------------------------------------------------- constants
Day == 2           \* datetime.timedelta(days=1), in units of 12 hours
NoneVal == -1      \* Python None where an instant is expected

Threads == {"t1", "t2"}
NoThread == "none"
NoExc == "none"

Nows == 0 .. MaxNow
\* values cs.compliant_until may hold: None, or an instant from 12 hours
\* before the earliest now + 24h to 12 hours after the latest
Untils == {NoneVal} \cup ((Day - 1) .. (MaxNow + Day + 1))

\* a list of n grants, as returned by uep.bind
GrantList(n) == [i \in 1 .. n |-> i]
GrantLists == {GrantList(n) : n \in 0 .. MaxGrants}

\* the consumer dict returned by uep.getConsumer, reduced to its "autoheal" key
Consumers ==
    {c \in [fetched : {TRUE}, has_autoheal : BOOLEAN, autoheal : BOOLEAN] :
        c.autoheal => c.has_autoheal}
NoConsumer == [fetched |-> FALSE, has_autoheal |-> FALSE, autoheal |-> FALSE]

\* entcertlib.EntCertUpdateReport(): what was installed, and _exceptions
EmptyReport == [added |-> <<>>, exceptions |-> <<>>]
\* the reports EntCertActionInvoker.update() may hand back
RefreshReports ==
    [added : GrantLists, exceptions : {<<>>}]
    \cup {[added |-> <<>>, exceptions |-> <<"entcert">>]}

\* one collaborator call, as seen by the collaborator
Call(op, instant, e) == [op |-> op, instant |-> instant, ents |-> e]

\* what update() hands to its caller
NoRet == [kind |-> "none", val |-> 0, report |-> EmptyReport, exc |-> NoExc]
RetInt(n) == [kind |-> "int", val |-> n, report |-> EmptyReport, exc |-> NoExc]
RetReport(r) == [kind |-> "report", val |-> 0, report |-> r, exc |-> NoExc]
RetRaise(e) == [kind |-> "raise", val |-> 0, report |-> EmptyReport, exc |-> e]

NoSorter == [valid |-> FALSE, compliant_until |-> NoneVal]

VARIABLES
    pc,              \* per thread: position inside update()/perform()
    lock,            \* the action lock (reentrant): owner and depth
    consumer,        \* per thread: local "consumer"
    today,           \* per thread: local "today"
    cs,              \* per thread: the cert sorter seen by this cycle
    valid_today,     \* per thread: local "valid_today"
    valid_tomorrow,  \* per thread: local "valid_tomorrow"
    ents,            \* per thread: local "ents"
    report,          \* per thread: self.report
    raised,          \* per thread: the exception raised in this cycle
    msg,             \* per thread: the summary logged at line 135
    calls,           \* per thread: collaborator calls made in this cycle
    ret,             \* per thread: what update() returned / raised
    obj,             \* per thread: identity of the object self.report names
    nobj,            \* per thread: report objects created so far
    refreshed,       \* per thread: what cert_updater.update() handed back
    cycle,           \* per thread: cycles this scheduler thread has finished
    earlier          \* per thread: the reports earlier cycles returned

vars == <<pc, lock, consumer, today, cs, valid_today, valid_tomorrow, ents,
          report, raised, msg, calls, ret, obj, nobj, refreshed, cycle, earlier>>

hist == <<obj, nobj, refreshed, cycle, earlier>>

locals == <<consumer, today, cs, valid_today, valid_tomorrow, ents, msg>>

\* ------------------------------------------------------- pure operators

\* line 92: tomorrow = today + timedelta(days=1)
Tomorrow(d) == d + Day

\* line 85: "autoheal" not in consumer or not consumer["autoheal"]
AutohealDisabledKeyOnly(c) == ~c.has_autoheal
AutohealDisabled(c) == ~c.has_autoheal \/ ~c.autoheal

\* line 116: cs.compliant_until is None
UntilUnknownNever(until) == FALSE
UntilUnknown(until) == until = NoneVal

\* line 121: tomorrow > cs.compliant_until
HealTomorrowInclusive(tom, until) == tom >= until
HealTomorrow(tom, until) == tom > until

\* lines 106 / 124: the instant handed to uep.bind in each branch
BindInstantAlwaysTomorrow(d, branch) == Tomorrow(d)
BindInstantAlwaysToday(d, branch) == d
BindInstant(d, branch) == IF branch = "today" THEN d ELSE Tomorrow(d)

\* lines 107 / 125: entitlement_data handed to post_auto_attach
PostDataEmpty(e) == <<>>
PostData(e) == e

\* lines 103-128: where control goes once a remediation block is finished
AfterHealFallThrough(branch) == IF branch = "today" THEN "compliant_until" ELSE "msg"
AfterHeal(branch) == "msg"

\* line 76: self.report = EntCertUpdateReport(), a new object every cycle;
\* prev is the report object of the previous HealingUpdateAction
NewReportShared(prev, fresh) == prev
NewReport(prev, fresh) == fresh

\* lines 112 / 126: self.report = cert_updater.update()
AssignReportForgotten(old, r) == old
AssignReport(old, r) == r

\* line 140 appends in place: every holder of the object id sees the change
WriteThrough(held, id, content) ==
    [i \in DOMAIN held |->
        IF held[i].id = id THEN [held[i] EXCEPT !.now = content] ELSE held[i]]

\* lines 89 / 137: an exception raised by a call inside the try block goes
\* to the handler, whichever call and branch it came from
RaiseTargetHookSwallowed(op, branch) ==
    IF op = "pre_auto_attach" THEN "bind_" \o branch ELSE "except"
RaiseTarget(op, branch) == "except"

\* line 140: self.report._exceptions.append(e)
RecordExceptionTwice(r, e) == [r EXCEPT !.exceptions = Append(Append(@, e), e)]
RecordExceptionDropped(r, e) == r
RecordException(r, e) == [r EXCEPT !.exceptions = Append(@, e)]

\* lines 130-134: the summary text, without the embedded timestamps
SummaryNoTomorrow(vt, vtm) ==
    <<"Entitlement auto healing was checked and entitlements">>
    \o (IF vt THEN <<" are valid today">> ELSE <<>>)
Summary(vt, vtm) ==
    <<"Entitlement auto healing was checked and entitlements">>
    \o (IF vt THEN <<" are valid today">> ELSE <<>>)
    \o (IF vt /\ vtm THEN <<" and tomorrow">> ELSE <<>>)

\* the action lock: threading.RLock semantics
CanAcquireUnlocked(t) == TRUE
CanAcquire(t) == lock.owner = NoThread \/ lock.owner = t
Acquired(t) == [owner |-> t, depth |-> lock.depth + 1]
Released(t) ==
    IF lock.depth = 1 THEN [owner |-> NoThread, depth |-> 0]
    ELSE [owner |-> t, depth |-> lock.depth - 1]

\* ------------------------------------------------------------------ Init
Init ==
    /\ pc = [t \in Threads |-> "idle"]
    /\ lock = [owner |-> NoThread, depth |-> 0]
    /\ consumer = [t \in Threads |-> NoConsumer]
    /\ today = [t \in Threads |-> 0]
    /\ cs = [t \in Threads |-> NoSorter]
    /\ valid_today = [t \in Threads |-> FALSE]
    /\ valid_tomorrow = [t \in Threads |-> FALSE]
    /\ ents = [t \in Threads |-> <<>>]
    /\ report = [t \in Threads |-> EmptyReport]
    /\ raised = [t \in Threads |-> NoExc]
    /\ msg = [t \in Threads |-> <<>>]
    /\ calls = [t \in Threads |-> <<>>]
    /\ ret = [t \in Threads |-> NoRet]
    /\ obj = [t \in Threads |-> 0]
    /\ nobj = [t \in Threads |-> 0]
    /\ refreshed = [t \in Threads |-> EmptyReport]
    /\ cycle = [t \in Threads |-> 0]
    /\ earlier = [t \in Threads |-> <<>>]

\* --------------------------------------------------------------- actions

\* BaseActionInvoker.update(): locker.run(self._do_update) takes the lock
Update(t) ==
    /\ pc[t] = "idle"
    /\ CanAcquire(t)
    /\ lock' = Acquired(t)
    /\ pc' = [pc EXCEPT ![t] = "do_update"]
    /\ UNCHANGED <<hist, locals, report, raised, calls, ret>>

\* _do_update: action = HealingUpdateAction(), with a fresh report
DoUpdate(t) ==
    /\ pc[t] = "do_update"
    /\ LET new == NewReport([id |-> obj[t], content |-> report[t]],
                          [id |-> nobj[t] + 1, content |-> EmptyReport])
       IN /\ report' = [report EXCEPT ![t] = new.content]
          /\ obj' = [obj EXCEPT ![t] = new.id]
    /\ nobj' = [nobj EXCEPT ![t] = @ + 1]
    /\ pc' = [pc EXCEPT ![t] = "getConsumer"]
    /\ UNCHANGED <<lock, locals, raised, calls, ret, refreshed, cycle, earlier>>

\* lines 81-83: the account lookup, outside the try block
GetConsumer(t) ==
    /\ pc[t] = "getConsumer"
    /\ calls' = [calls EXCEPT ![t] = Append(@, Call("getConsumer", NoneVal, <<>>))]
    /\ \/ \E c \in Consumers :
            /\ consumer' = [consumer EXCEPT ![t] = c]
            /\ pc' = [pc EXCEPT ![t] = "autoheal"]
            /\ UNCHANGED <<raised, ret>>
       \/ /\ raised' = [raised EXCEPT ![t] = "getConsumer"]
          /\ ret' = [ret EXCEPT ![t] = RetRaise("getConsumer")]
          /\ pc' = [pc EXCEPT ![t] = "release"]
          /\ UNCHANGED consumer
    /\ UNCHANGED <<hist, lock, today, cs, valid_today, valid_tomorrow, ents, msg, report>>

\* lines 85-87: skip when auto-heal is off
CheckAutoheal(t) ==
    /\ pc[t] = "autoheal"
    /\ IF AutohealDisabled(consumer[t])
       THEN /\ ret' = [ret EXCEPT ![t] = RetInt(0)]
            /\ pc' = [pc EXCEPT ![t] = "release"]
       ELSE /\ pc' = [pc EXCEPT ![t] = "try"]
            /\ UNCHANGED ret
    /\ UNCHANGED <<hist, lock, locals, report, raised, calls>>

\* lines 91-102: today, tomorrow, the flags, the cert sorter, the cert updater
EnterTry(t) ==
    /\ pc[t] = "try"
    /\ \E d \in Nows, v \in BOOLEAN, u \in Untils :
          /\ today' = [today EXCEPT ![t] = d]
          /\ cs' = [cs EXCEPT ![t] = [valid |-> v, compliant_until |-> u]]
    /\ valid_today' = [valid_today EXCEPT ![t] = FALSE]
    /\ valid_tomorrow' = [valid_tomorrow EXCEPT ![t] = FALSE]
    /\ pc' = [pc EXCEPT ![t] = "is_valid"]
    /\ UNCHANGED <<hist, lock, consumer, ents, msg, report, raised, calls, ret>>

\* lines 103, 113-114: cs.is_valid()
IsValid(t) ==
    /\ pc[t] = "is_valid"
    /\ calls' = [calls EXCEPT ![t] = Append(@, Call("is_valid", NoneVal, <<>>))]
    /\ \/ /\ ~cs[t].valid
          /\ pc' = [pc EXCEPT ![t] = "pre_today"]
          /\ UNCHANGED <<valid_today, raised>>
       \/ /\ cs[t].valid
          /\ valid_today' = [valid_today EXCEPT ![t] = TRUE]
          /\ pc' = [pc EXCEPT ![t] = "compliant_until"]
          /\ UNCHANGED raised
       \/ /\ raised' = [raised EXCEPT ![t] = "is_valid"]
          /\ pc' = [pc EXCEPT ![t] = RaiseTarget("is_valid", "today")]
          /\ UNCHANGED valid_today
    /\ UNCHANGED <<hist, lock, consumer, today, cs, valid_tomorrow, ents, msg, report, ret>>

\* lines 116-128: the tomorrow check on cs.compliant_until
CompliantUntil(t) ==
    /\ pc[t] = "compliant_until"
    /\ calls' = [calls EXCEPT ![t] = Append(@, Call("compliant_until", NoneVal, <<>>))]
    /\ IF UntilUnknown(cs[t].compliant_until)
       THEN /\ pc' = [pc EXCEPT ![t] = "msg"]
            /\ UNCHANGED valid_tomorrow
       ELSE IF HealTomorrow(Tomorrow(today[t]), cs[t].compliant_until)
       THEN /\ pc' = [pc EXCEPT ![t] = "pre_tomorrow"]
            /\ UNCHANGED valid_tomorrow
       ELSE /\ valid_tomorrow' = [valid_tomorrow EXCEPT ![t] = TRUE]
            /\ pc' = [pc EXCEPT ![t] = "msg"]
    /\ UNCHANGED <<hist, lock, consumer, today, cs, valid_today, ents, msg, report, raised, ret>>

\* lines 105 / 123: plugin_manager.run("pre_auto_attach", ...)
PreAutoAttach(t, b) ==
    /\ pc[t] = "pre_" \o b
    /\ calls' = [calls EXCEPT ![t] = Append(@, Call("pre_auto_attach", NoneVal, <<>>))]
    /\ \/ /\ pc' = [pc EXCEPT ![t] = "bind_" \o b]
          /\ UNCHANGED raised
       \/ /\ raised' = [raised EXCEPT ![t] = "pre_auto_attach"]
          /\ pc' = [pc EXCEPT ![t] = RaiseTarget("pre_auto_attach", b)]
    /\ UNCHANGED <<hist, lock, locals, report, ret>>

\* lines 106 / 124: ents = self.uep.bind(uuid, today | tomorrow)
Bind(t, b) ==
    /\ pc[t] = "bind_" \o b
    /\ calls' = [calls EXCEPT ![t] = Append(@, Call("bind", BindInstant(today[t], b), <<>>))]
    /\ \/ \E e \in GrantLists :
            /\ ents' = [ents EXCEPT ![t] = e]
            /\ pc' = [pc EXCEPT ![t] = "post_" \o b]
            /\ UNCHANGED raised
       \/ /\ raised' = [raised EXCEPT ![t] = "bind"]
          /\ pc' = [pc EXCEPT ![t] = RaiseTarget("bind", b)]
          /\ UNCHANGED ents
    /\ UNCHANGED <<hist, lock, consumer, today, cs, valid_today, valid_tomorrow, msg, report, ret>>

\* lines 107 / 125: plugin_manager.run("post_auto_attach", ..., entitlement_data=ents)
PostAutoAttach(t, b) ==
    /\ pc[t] = "post_" \o b
    /\ calls' = [calls EXCEPT ![t] = Append(@, Call("post_auto_attach", NoneVal, PostData(ents[t])))]
    /\ \/ /\ pc' = [pc EXCEPT ![t] = "update_" \o b]
          /\ UNCHANGED raised
       \/ /\ raised' = [raised EXCEPT ![t] = "post_auto_attach"]
          /\ pc' = [pc EXCEPT ![t] = RaiseTarget("post_auto_attach", b)]
    /\ UNCHANGED <<hist, lock, locals, report, ret>>

\* lines 112 / 126: cert_updater.update() is entered; it takes the lock again
CertUpdate(t, b) ==
    /\ pc[t] = "update_" \o b
    /\ CanAcquire(t)
    /\ lock' = Acquired(t)
    /\ calls' = [calls EXCEPT ![t] = Append(@, Call("update", NoneVal, <<>>))]
    /\ pc' = [pc EXCEPT ![t] = "refresh_" \o b]
    /\ UNCHANGED <<hist, locals, report, raised, ret>>

\* lines 112 / 126: self.report = cert_updater.update() returns or raises
CertUpdateReturn(t, b) ==
    /\ pc[t] = "refresh_" \o b
    /\ lock' = Released(t)
    /\ \/ \E r \in RefreshReports :
            /\ refreshed' = [refreshed EXCEPT ![t] = r]
            /\ report' = [report EXCEPT ![t] = AssignReport(@, r)]
            /\ obj' = [obj EXCEPT ![t] = AssignReport(@, nobj[t] + 1)]
            /\ nobj' = [nobj EXCEPT ![t] = @ + 1]
            /\ pc' = [pc EXCEPT ![t] = AfterHeal(b)]
            /\ UNCHANGED raised
       \/ /\ raised' = [raised EXCEPT ![t] = "update"]
          /\ pc' = [pc EXCEPT ![t] = RaiseTarget("update", b)]
          /\ UNCHANGED <<report, refreshed, obj, nobj>>
    /\ UNCHANGED <<locals, calls, ret, cycle, earlier>>

\* lines 130-135: the summary message
LogMsg(t) ==
    /\ pc[t] = "msg"
    /\ msg' = [msg EXCEPT ![t] = Summary(valid_today[t], valid_tomorrow[t])]
    /\ pc' = [pc EXCEPT ![t] = "else"]
    /\ UNCHANGED <<hist, lock, consumer, today, cs, valid_today, valid_tomorrow, ents,
                   report, raised, calls, ret>>

\* lines 137-141: except Exception as e
ExceptHandler(t) ==
    /\ pc[t] = "except"
    /\ report' = [report EXCEPT ![t] = RecordException(@, raised[t])]
    /\ earlier' = [earlier EXCEPT ![t] = WriteThrough(@, obj[t], report'[t])]
    /\ ret' = [ret EXCEPT ![t] = RetReport(report'[t])]
    /\ pc' = [pc EXCEPT ![t] = "release"]
    /\ UNCHANGED <<lock, locals, raised, calls, obj, nobj, refreshed, cycle>>

\* lines 142-144: else: return self.report
ReturnElse(t) ==
    /\ pc[t] = "else"
    /\ ret' = [ret EXCEPT ![t] = RetReport(report[t])]
    /\ pc' = [pc EXCEPT ![t] = "release"]
    /\ UNCHANGED <<hist, lock, locals, report, raised, calls>>

\* locker.run's finally: the lock is released, update() hands over the result
Release(t) ==
    /\ pc[t] = "release"
    /\ lock' = Released(t)
    /\ pc' = [pc EXCEPT ![t] = "done"]
    /\ UNCHANGED <<hist, locals, report, raised, calls, ret>>

\* the scheduler's next invocation on this thread starts from scratch
NextCycle(t) ==
    /\ pc[t] = "done"
    /\ pc' = [pc EXCEPT ![t] = "idle"]
    /\ consumer' = [consumer EXCEPT ![t] = NoConsumer]
    /\ today' = [today EXCEPT ![t] = 0]
    /\ cs' = [cs EXCEPT ![t] = NoSorter]
    /\ valid_today' = [valid_today EXCEPT ![t] = FALSE]
    /\ valid_tomorrow' = [valid_tomorrow EXCEPT ![t] = FALSE]
    /\ ents' = [ents EXCEPT ![t] = <<>>]
    /\ report' = [report EXCEPT ![t] = EmptyReport]
    /\ raised' = [raised EXCEPT ![t] = NoExc]
    /\ msg' = [msg EXCEPT ![t] = <<>>]
    /\ calls' = [calls EXCEPT ![t] = <<>>]
    /\ ret' = [ret EXCEPT ![t] = NoRet]
    /\ obj' = [obj EXCEPT ![t] = 0]
    /\ nobj' = [nobj EXCEPT ![t] = 0]
    /\ refreshed' = [refreshed EXCEPT ![t] = EmptyReport]
    /\ cycle' = [cycle EXCEPT ![t] = 0]
    /\ earlier' = [earlier EXCEPT ![t] = <<>>]
    /\ UNCHANGED lock

\* another caller's top-level EntCertActionInvoker.update() takes the lock
RefresherUpdate(t) ==
    /\ pc[t] = "idle"
    /\ CanAcquire(t)
    /\ lock' = Acquired(t)
    /\ pc' = [pc EXCEPT ![t] = "top_refresh"]
    /\ UNCHANGED <<hist, locals, report, raised, calls, ret>>

\* ... changes the local certificates, and releases the lock
RefresherReturn(t) ==
    /\ pc[t] = "top_refresh"
    /\ lock' = Released(t)
    /\ pc' = [pc EXCEPT ![t] = "idle"]
    /\ UNCHANGED <<hist, locals, report, raised, calls, ret>>

Branches == {"today", "tomorrow"}

Next ==
    \E t \in Threads :
        \/ Update(t)
        \/ DoUpdate(t)
        \/ GetConsumer(t)
        \/ CheckAutoheal(t)
        \/ EnterTry(t)
        \/ IsValid(t)
        \/ CompliantUntil(t)
        \/ \E b \in Branches : PreAutoAttach(t, b)
        \/ \E b \in Branches : Bind(t, b)
        \/ \E b \in Branches : PostAutoAttach(t, b)
        \/ \E b \in Branches : CertUpdate(t, b)
        \/ \E b \in Branches : CertUpdateReturn(t, b)
        \/ LogMsg(t)
        \/ ExceptHandler(t)
        \/ ReturnElse(t)
        \/ Release(t)
        \/ NextCycle(t)
        \/ RefresherUpdate(t)
        \/ RefresherReturn(t)

Spec == Init /\ [][Next]_vars

\* ------------------------------------- one scheduler, cycle after cycle

\* the scheduler calls update() again and keeps the reports it was handed;
\* the previous HealingUpdateAction and its attributes are left as they were
Reinvoke(t) ==
    /\ pc[t] = "done"
    /\ cycle[t] < MaxCycles - 1
    /\ cycle' = [cycle EXCEPT ![t] = @ + 1]
    /\ earlier' = [earlier EXCEPT ![t] =
            IF ret[t].kind = "report"
            THEN Append(@, [id |-> obj[t], returned |-> ret[t].report,
                            now |-> report[t]])
            ELSE @]
    /\ pc' = [pc EXCEPT ![t] = "idle"]
    /\ consumer' = [consumer EXCEPT ![t] = NoConsumer]
    /\ today' = [today EXCEPT ![t] = 0]
    /\ cs' = [cs EXCEPT ![t] = NoSorter]
    /\ valid_today' = [valid_today EXCEPT ![t] = FALSE]
    /\ valid_tomorrow' = [valid_tomorrow EXCEPT ![t] = FALSE]
    /\ ents' = [ents EXCEPT ![t] = <<>>]
    /\ raised' = [raised EXCEPT ![t] = NoExc]
    /\ msg' = [msg EXCEPT ![t] = <<>>]
    /\ calls' = [calls EXCEPT ![t] = <<>>]
    /\ ret' = [ret EXCEPT ![t] = NoRet]
    /\ refreshed' = [refreshed EXCEPT ![t] = EmptyReport]
    /\ UNCHANGED <<lock, report, obj, nobj>>

\* the single periodic scheduler thread of spec section 5
Scheduler == {"t1"}

NextSeq ==
    \E t \in Scheduler :
        \/ Update(t)
        \/ DoUpdate(t)
        \/ GetConsumer(t)
        \/ CheckAutoheal(t)
        \/ EnterTry(t)
        \/ IsValid(t)
        \/ CompliantUntil(t)
        \/ \E b \in Branches : PreAutoAttach(t, b)
        \/ \E b \in Branches : Bind(t, b)
        \/ \E b \in Branches : PostAutoAttach(t, b)
        \/ \E b \in Branches : CertUpdate(t, b)
        \/ \E b \in Branches : CertUpdateReturn(t, b)
        \/ LogMsg(t)
        \/ ExceptHandler(t)
        \/ ReturnElse(t)
        \/ Release(t)
        \/ Reinvoke(t)

SpecSeq == Init /\ [][NextSeq]_vars

\* every call returns or raises, and the scheduler thread keeps running
LiveSpec == SpecSeq /\ WF_vars(NextSeq)

TypeOK ==
    /\ lock.owner \in Threads \cup {NoThread}
    /\ lock.depth \in 0 .. 2
    /\ \A t \in Threads :
        /\ consumer[t] \in Consumers \cup {NoConsumer}
        /\ today[t] \in Nows
        /\ ents[t] \in GrantLists
        /\ Len(calls[t]) <= 7

\* ------------------------------------------------- reading the call trace

Finished(t) == pc[t] = "done"

\* the account record was fetched and carries a true "autoheal" flag
AutohealOn(t) ==
    consumer[t].fetched /\ consumer[t].has_autoheal /\ consumer[t].autoheal

\* the account record was fetched and its "autoheal" flag is false or absent
AutohealOff(t) ==
    consumer[t].fetched /\ ~(consumer[t].has_autoheal /\ consumer[t].autoheal)

\* positions in this cycle's call trace at which op was called
At(t, op) == {i \in DOMAIN calls[t] : calls[t][i].op = op}
Count(t, op) == Cardinality(At(t, op))

\* exactly one bind, at the given instant, between one pre_auto_attach and
\* one post_auto_attach that is handed the grants the bind returned
HealedAt(t, instant) ==
    /\ Count(t, "bind") = 1
    /\ Count(t, "pre_auto_attach") = 1
    /\ Count(t, "post_auto_attach") = 1
    /\ \E i \in At(t, "pre_auto_attach"), j \in At(t, "bind"),
          k \in At(t, "post_auto_attach") :
            /\ i < j /\ j < k
            /\ calls[t][j].instant = instant
            /\ calls[t][k].ents = ents[t]

\* the cert sorter of this cycle says coverage lapses within 24 hours
LapsesByTomorrow(t) ==
    /\ cs[t].compliant_until # NoneVal
    /\ today[t] + Day > cs[t].compliant_until

\* the cert sorter of this cycle says coverage reaches now + 24h
CoveredTomorrow(t) ==
    /\ cs[t].compliant_until # NoneVal
    /\ today[t] + Day <= cs[t].compliant_until

InRefresh(t) == pc[t] \in {"refresh_today", "refresh_tomorrow"}

\* ----------------------------------------------------------------- claims

\* C1: in a finished cycle with auto-heal on, coverage invalid at now and no
\* call raising, exactly one bind is made, at instant now, after
\* pre_auto_attach and before post_auto_attach, which gets the bound grants;
\* compliant_until is never read.
C1_InvalidTodayHealsToday ==
    \A t \in Threads :
        (Finished(t) /\ AutohealOn(t) /\ Count(t, "is_valid") = 1
            /\ ~cs[t].valid /\ raised[t] = NoExc)
        => /\ HealedAt(t, today[t])
           /\ Count(t, "compliant_until") = 0

C1_Witness ==
    \E t \in Threads :
        /\ Finished(t) /\ AutohealOn(t) /\ ~cs[t].valid /\ raised[t] = NoExc
        /\ Count(t, "bind") = 1 /\ Count(t, "update") = 1
        /\ ents[t] # <<>>
        /\ LapsesByTomorrow(t)

\* C2: in a finished cycle with auto-heal on, coverage valid at now,
\* compliant_until present and now + 24h > compliant_until, and no call
\* raising, exactly one bind is made, at instant now + 24h, after
\* pre_auto_attach and before post_auto_attach, which gets the bound grants.
C2_LapsingHealsTomorrow ==
    \A t \in Threads :
        (Finished(t) /\ AutohealOn(t) /\ cs[t].valid /\ LapsesByTomorrow(t)
            /\ raised[t] = NoExc)
        => HealedAt(t, today[t] + Day)

C2_Witness ==
    \E t \in Threads :
        /\ Finished(t) /\ AutohealOn(t) /\ cs[t].valid /\ LapsesByTomorrow(t)
        /\ raised[t] = NoExc
        /\ Count(t, "bind") = 1 /\ ents[t] # <<>>
        /\ today[t] + Day = cs[t].compliant_until + 1

\* C3: at every moment of every cycle, whatever the validity state and
\* whichever call fails, at most one bind request has been issued.
C3_AtMostOneBind ==
    \A t \in Threads : Count(t, "bind") <= 1

\* both checks would independently ask for remediation, and the bind was made
C3_Witness ==
    \E t \in Threads :
        /\ Finished(t) /\ ~cs[t].valid /\ LapsesByTomorrow(t)
        /\ Count(t, "bind") = 1 /\ Count(t, "update") = 1
        /\ raised[t] = NoExc

\* C4: a finished cycle never raised to its caller: an exception raised by
\* the account lookup, the validity check, a hook or the bind is in the error
\* list of the report that was returned.
C4_NeverRaises ==
    \A t \in Threads :
        (Finished(t) /\ raised[t] \in {"getConsumer", "is_valid",
                            "pre_auto_attach", "post_auto_attach", "bind"})
        => /\ ret[t].kind = "report"
           /\ \E i \in DOMAIN ret[t].report.exceptions :
                 ret[t].report.exceptions[i] = raised[t]

\* C5: when the bind call raised, the finished cycle returned a report whose
\* error list holds that error and whose grants are empty; it did not raise.
C5_BindErrorReported ==
    \A t \in Threads :
        (Finished(t) /\ raised[t] = "bind")
        => /\ ret[t].kind = "report"
           /\ ret[t].report.exceptions = <<"bind">>
           /\ ret[t].report.added = <<>>

C5_Witness ==
    \E t \in Threads :
        /\ Finished(t) /\ raised[t] = "bind" /\ ret[t].kind = "report"
        /\ \E j \in At(t, "bind") : calls[t][j].instant = today[t] + Day

\* C6: in a finished cycle in which a bind returned (post_auto_attach was
\* reached), the certificate refresh was invoked after it, also when
\* post_auto_attach raised.
C6_RefreshAfterEveryBind ==
    \A t \in Threads :
        (Finished(t) /\ Count(t, "post_auto_attach") = 1)
        => \E j \in At(t, "bind"), k \in At(t, "update") : j < k

\* C7: EntCertActionInvoker.update() never executes while the healing cycle
\* still holds the lock: whenever the refresh is running, the only hold on
\* the lock is the refresher's own.
C7_RefreshOutsideHealingLock ==
    \A t \in Threads : InRefresh(t) => lock.depth <= 1

\* C8: once the account record shows auto-heal false or absent, the cycle
\* makes no call besides the account lookup (no validity check, hook, bind or
\* refresh) and records no error.
C8_DisabledDoesNothing ==
    \A t \in Threads :
        AutohealOff(t)
        => /\ calls[t] = <<Call("getConsumer", NoneVal, <<>>)>>
           /\ report[t] = EmptyReport
           /\ raised[t] = NoExc
           /\ ret[t].kind # "raise"

C8_Witness ==
    \E t \in Threads :
        /\ Finished(t) /\ consumer[t].fetched
        /\ consumer[t].has_autoheal /\ ~consumer[t].autoheal

\* C9: a finished cycle that was skipped because auto-heal is false or
\* absent returned an empty report.
C9_SkipReturnsReport ==
    \A t \in Threads :
        (Finished(t) /\ AutohealOff(t)) => ret[t] = RetReport(EmptyReport)

\* C10: with auto-heal on, coverage valid at now and now + 24h <=
\* compliant_until, the cycle makes no hook, bind or refresh call, and when
\* it finishes without an error the report it returns is empty.
C10_CoveredTomorrowDoesNothing ==
    \A t \in Threads :
        (AutohealOn(t) /\ cs[t].valid /\ CoveredTomorrow(t))
        => /\ Count(t, "bind") = 0
           /\ Count(t, "pre_auto_attach") = 0
           /\ Count(t, "post_auto_attach") = 0
           /\ Count(t, "update") = 0
           /\ (Finished(t) /\ raised[t] = NoExc)
                => ret[t] = RetReport(EmptyReport)

\* the boundary now + 24h = compliant_until, after the tomorrow check ran
C10_Witness ==
    \E t \in Threads :
        /\ Finished(t) /\ AutohealOn(t) /\ cs[t].valid
        /\ today[t] + Day = cs[t].compliant_until
        /\ Count(t, "compliant_until") = 1
        /\ raised[t] = NoExc

\* C11: with auto-heal on, coverage valid at now (is_valid returned) and
\* compliant_until absent, the cycle makes no hook, bind or refresh call,
\* raises nothing and keeps its error list empty; when it finishes it
\* returns the empty report.
C11_UnknownExpiryDoesNothing ==
    \A t \in Threads :
        (AutohealOn(t) /\ cs[t].valid /\ cs[t].compliant_until = NoneVal
            /\ raised[t] # "is_valid")
        => /\ Count(t, "bind") = 0
           /\ Count(t, "pre_auto_attach") = 0
           /\ Count(t, "post_auto_attach") = 0
           /\ Count(t, "update") = 0
           /\ raised[t] = NoExc
           /\ report[t].exceptions = <<>>
           /\ Finished(t) => ret[t] = RetReport(EmptyReport)

C11_Witness ==
    \E t \in Threads :
        /\ Finished(t) /\ AutohealOn(t) /\ cs[t].valid
        /\ cs[t].compliant_until = NoneVal
        /\ Count(t, "compliant_until") = 1
        /\ ret[t].kind = "report"

\* remediation succeeded: hooks, bind and refresh all returned normally
Remediated(t) ==
    Finished(t) /\ raised[t] = NoExc /\ Count(t, "update") = 1

\* C12 (as stated): after a successful remediation the returned report has
\* grants equal to the list the bind returned and an empty error list.
C12_ReportHoldsBoundGrants ==
    \A t \in Threads :
        Remediated(t)
        => /\ ret[t].kind = "report"
           /\ ret[t].report.added = ents[t]
           /\ ret[t].report.exceptions = <<>>

\* C12 (amended): after a successful remediation the returned report is the
\* report that cert_updater.update() handed back, whatever it holds.
C12_ReportIsRefreshersReport ==
    \A t \in Threads :
        Remediated(t) => ret[t] = RetReport(refreshed[t])

C12_Witness ==
    \E t \in Threads :
        /\ Remediated(t)
        /\ ents[t] # <<>>
        /\ refreshed[t].added = ents[t]
        /\ ret[t].report # EmptyReport

\* between the lock being taken by update() and its release
InCycle(t) == pc[t] \notin {"idle", "done", "top_refresh"}

\* C13: healing cycles are serialized end to end: while one thread is
\* anywhere between taking and releasing the invoker's lock, no other thread
\* is inside a healing cycle or inside a top-level certificate refresh.
C13_CyclesSerialized ==
    \A t \in Threads : \A u \in Threads \ {t} :
        InCycle(t) => (~InCycle(u) /\ pc[u] # "top_refresh")

\* a second invocation is held at the lock while the first is mid-decision
C13_Witness ==
    \E t \in Threads : \E u \in Threads \ {t} :
        /\ pc[t] = "bind_tomorrow" /\ lock.owner = t
        /\ pc[u] = "idle" /\ ~CanAcquire(u)

\* the calls of the decision step that may raise into the handler of line 137
TryCalls == {"is_valid", "pre_auto_attach", "bind", "post_auto_attach", "update"}

\* C14: once a call inside the decision step has raised, that call stays the
\* last call of the cycle (no further hook, bind or refresh), and the cycle
\* returns its report with exactly that one error appended.
C14_RaiseAbortsCycle ==
    \A t \in Threads :
        raised[t] \in TryCalls
        => /\ calls[t][Len(calls[t])].op = raised[t]
           /\ pc[t] \in {"except", "release", "done"}
           /\ pc[t] \in {"release", "done"}
                => /\ ret[t].kind = "report"
                   /\ ret[t].report.exceptions = <<raised[t]>>

C14_Witness ==
    \E t \in Threads :
        /\ Finished(t) /\ raised[t] = "post_auto_attach"
        /\ Count(t, "bind") = 1 /\ Count(t, "update") = 0
        /\ ret[t].kind = "report"

\* the per-cycle state of spec section 4.3 a thread is in
Phase(t) ==
    CASE pc[t] \in {"idle", "do_update", "getConsumer", "autoheal", "try",
                    "top_refresh"} -> "IDLE"
      [] pc[t] = "is_valid" -> "CHECKING_TODAY"
      [] pc[t] \in {"pre_today", "bind_today", "post_today", "update_today",
                    "refresh_today"} -> "REMEDIATING_TODAY"
      [] pc[t] = "compliant_until" -> "CHECKING_TOMORROW"
      [] pc[t] \in {"pre_tomorrow", "bind_tomorrow", "post_tomorrow",
                    "update_tomorrow", "refresh_tomorrow"} -> "REMEDIATING_TOMORROW"
      [] pc[t] \in {"msg", "else"} ->
            IF Count(t, "pre_auto_attach") = 0 THEN "SATISFIED"
            ELSE IF valid_today[t] THEN "REMEDIATING_TOMORROW"
            ELSE "REMEDIATING_TODAY"
      [] OTHER -> "DONE"

\* the arrows of the state machine; DONE is also where a skipped or failed
\* cycle ends, and a new cycle starts again at IDLE
PhaseEdges ==
    { <<"IDLE", "CHECKING_TODAY">>,
      <<"CHECKING_TODAY", "REMEDIATING_TODAY">>,
      <<"CHECKING_TODAY", "CHECKING_TOMORROW">>,
      <<"CHECKING_TOMORROW", "REMEDIATING_TOMORROW">>,
      <<"CHECKING_TOMORROW", "SATISFIED">>,
      <<"REMEDIATING_TODAY", "DONE">>,
      <<"REMEDIATING_TOMORROW", "DONE">>,
      <<"SATISFIED", "DONE">>,
      <<"IDLE", "DONE">>,
      <<"CHECKING_TODAY", "DONE">>,
      <<"DONE", "IDLE">> }

\* C15: every step of a cycle stays in its state or follows an arrow of
\* IDLE -> CHECKING_TODAY -> {REMEDIATING_TODAY | CHECKING_TOMORROW} ->
\* {REMEDIATING_TOMORROW | SATISFIED} -> DONE (so REMEDIATING_TOMORROW never
\* follows REMEDIATING_TODAY), and every cycle that starts reaches DONE, the
\* refresh re-entering the lock on the same thread included.
C15_CycleReachesDone ==
    /\ [][\A t \in Scheduler :
            \/ Phase(t)' = Phase(t)
            \/ <<Phase(t), Phase(t)'>> \in PhaseEdges]_vars
    /\ \A t \in Scheduler : (pc[t] = "idle") ~> (pc[t] = "done")

\* a cycle finished after its refresh re-entered the lock in the tomorrow branch
C15_Witness ==
    \E t \in Scheduler :
        /\ Finished(t) /\ raised[t] = NoExc /\ valid_today[t]
        /\ Count(t, "update") = 1
        /\ lock.depth = 0

\* what a cycle's report holds when built from that cycle's events alone
OwnReport(t) ==
    IF Count(t, "update") = 1 /\ raised[t] # "update" THEN refreshed[t]
    ELSE IF raised[t] = NoExc THEN EmptyReport
    ELSE [added |-> <<>>, exceptions |-> <<raised[t]>>]

\* C16: over a sequence of cycles, each cycle starts with a new, empty report
\* object; the report it returns holds only what that cycle recorded, and no
\* report returned by an earlier cycle is the current report object or has
\* changed since it was returned.
C16_FreshReportPerCycle ==
    \A t \in Scheduler :
        /\ pc[t] = "getConsumer" => report[t] = EmptyReport
        /\ (Finished(t) /\ ret[t].kind = "report") => ret[t].report = OwnReport(t)
        /\ \A i \in DOMAIN earlier[t] :
              /\ earlier[t][i].now = earlier[t][i].returned
              /\ InCycle(t) /\ pc[t] # "do_update" => earlier[t][i].id # obj[t]

\* a later cycle returned a report with an error after an earlier cycle had
\* returned a different, non-empty one
C16_Witness ==
    \E t \in Scheduler :
        /\ cycle[t] = 1 /\ Len(earlier[t]) = 1
        /\ earlier[t][1].returned.exceptions # <<>>
        /\ Finished(t) /\ ret[t].kind = "report"
        /\ ret[t].report.exceptions # <<>>
        /\ ret[t].report # earlier[t][1].returned

\* call b was made only after call a was made in this cycle and returned
After(t, a, b) ==
    Count(t, b) >= 1
    => /\ Count(t, a) = 1
       /\ raised[t] # a
       /\ \A j \in At(t, b) : \E i \in At(t, a) : i < j

\* C17: in every cycle, failing ones included, pre_auto_attach, bind,
\* post_auto_attach and the refresh are each called at most once, and each
\* only after the one before it was called in the same cycle and returned.
C17_RemediationChain ==
    \A t \in Threads :
        /\ Count(t, "pre_auto_attach") <= 1
        /\ Count(t, "bind") <= 1
        /\ Count(t, "post_auto_attach") <= 1
        /\ Count(t, "update") <= 1
        /\ After(t, "pre_auto_attach", "bind")
        /\ After(t, "bind", "post_auto_attach")
        /\ After(t, "post_auto_attach", "update")

\* a failing cycle that went through the whole chain
C17_Witness ==
    \E t \in Threads :
        /\ Finished(t) /\ raised[t] = "update"
        /\ Count(t, "pre_auto_attach") = 1 /\ Count(t, "bind") = 1
        /\ Count(t, "post_auto_attach") = 1 /\ Count(t, "update") = 1

\* a finished cycle with auto-heal on in which nothing raised
NonFailing(t) == Finished(t) /\ AutohealOn(t) /\ raised[t] = NoExc

\* the terminal outcome of a non-failing cycle, as the spec names them
Outcome(t) ==
    IF Count(t, "update") = 1
    THEN (IF cs[t].valid THEN "healed for tomorrow" ELSE "healed for today")
    ELSE (IF CoveredTomorrow(t) THEN "valid today and tomorrow"
          ELSE "valid today only")

\* the outcomes the summary text can tell apart
TextOutcome(t) ==
    IF Outcome(t) = "healed for tomorrow" THEN "valid today only"
    ELSE Outcome(t)

\* C18 (as stated): two non-failing cycles that end in different ones of the
\* four outcomes never log the same summary text.
C18_FourOutcomesDistinct ==
    \A t \in Threads : \A u \in Threads :
        (NonFailing(t) /\ NonFailing(u) /\ Outcome(t) # Outcome(u))
        => msg[t] # msg[u]

\* C18 (amended): the summary tells three outcomes apart: healed for today,
\* valid today and tomorrow, and valid today, the last being logged both
\* after healing for tomorrow and when valid today with no known expiry.
C18_ThreeOutcomesDistinct ==
    \A t \in Threads : \A u \in Threads :
        (NonFailing(t) /\ NonFailing(u) /\ TextOutcome(t) # TextOutcome(u))
        => msg[t] # msg[u]

\* one cycle ended valid today and tomorrow, another healed for tomorrow
C18_Witness ==
    \E t \in Threads : \E u \in Threads :
        /\ NonFailing(t) /\ NonFailing(u)
        /\ Outcome(t) = "valid today and tomorrow"
        /\ Outcome(u) = "healed for tomorrow"
        /\ msg[t] # msg[u]
=============================================================================
